---- MODULE Spec2Model ----
(***************************************************************************)
(* State-machine model of the dipole-correlation driver of                 *)
(* pyscf/fci/direct_dip_corr.py: _kfactory or the caller invoking          *)
(* FCIBase.kernel, which calls kernel_lanczos (pspace shortcut, Davidson   *)
(* solve, seed normalisation, first Krylov pass, restart loop,             *)
(* persistence, return), and kernel_ms1 called on its own.                 *)
(*                                                                         *)
(* Conventions.  Real and complex scalars are pairs <<re, im>> of          *)
(* integers.  numpy vectors are functions over 0..n-1 and numpy matrices   *)
(* records [n, a] with a over (0..n-1) \X (0..n-1), so indices are the     *)
(* source's.  Python lists (grid, dipole_corr, list_left, list_htdiag)     *)
(* are sequences: list index k is sequence index k+1.  Times are           *)
(* integers; a step of 0 stands for a step estimate so small that          *)
(* t += t_lim leaves the float t unchanged.  What numpy, scipy and the      *)
(* Lanczos build compute is chosen freely the first time it is needed and  *)
(* remembered, so that the same arguments give the same result again.      *)
(***************************************************************************)
EXTENDS Integers, Sequences, FiniteSets, TLC

\* ------------------------------------------------------------- bounds
MaxTime == 3          \* largest maxtime tried
MaxStep == 2          \* largest step estimate t_lim
MaxDet == 3           \* largest determinant count na*nb
MaxSpace == 3         \* max_space handed to the Lanczos build
MaxRoots == 2         \* largest nroots requested
MaxEnergy == 2        \* largest diagonal energy of a determinant
MaxRestarts == MaxTime + 1   \* restarts explored when the time does not advance

\* ------------------------------------------------------------- scalars
Zero == <<0, 0>>
One == <<1, 0>>
MinusI == <<0, -1>>
Re(z) == z[1]
Im(z) == z[2]
CAdd(x, y) == <<x[1] + y[1], x[2] + y[2]>>
CMul(x, y) == <<x[1] * y[1] - x[2] * y[2], x[1] * y[2] + x[2] * y[1]>>
Conj(z) == <<z[1], -z[2]>>
Abs2(z) == z[1] * z[1] + z[2] * z[2]
Min(a, b) == IF a <= b THEN a ELSE b
Max(a, b) == IF a >= b THEN a ELSE b

\* ------------------------------------------------------------- vectors
Dim(v) == Cardinality(DOMAIN v)
Unit(n, j, z) == [k \in 0..(n - 1) |-> IF k = j THEN z ELSE Zero]
Scale(z, v) == [k \in DOMAIN v |-> CMul(z, v[k])]
VAdd(u, v) == [k \in DOMAIN u |-> CAdd(u[k], v[k])]

RECURSIVE SumUpTo(_, _)
\* sum of f[0] .. f[n-1]
SumUpTo(f, n) == IF n = 0 THEN Zero ELSE CAdd(SumUpTo(f, n - 1), f[n - 1])

\* numpy.dot of two 1-d arrays: no conjugation
Dot(u, v) == SumUpTo([k \in DOMAIN u |-> CMul(u[k], v[k])], Dim(u))

Norm2(v) == SumUpTo([k \in DOMAIN v |-> <<Abs2(v[k]), 0>>], Dim(v))[1]
ISqrt(x) == CHOOSE r \in 0..x : r * r = x
\* numpy.linalg.norm on the vectors of the model (their squared norm is a square)
Norm(v) == ISqrt(Norm2(v))
\* v *= 1.0/nrm, v /= nrm
DivBy(v, nrm) == [k \in DOMAIN v |-> <<v[k][1] \div nrm, v[k][2] \div nrm>>]
Axis(v) == CHOOSE k \in DOMAIN v : v[k] # Zero

\* ------------------------------------------------------------- Lanczos build
\* lib.lanczos_tridiagonalize(aop, x0, max_space, lindep): an orthonormal basis A
\* of size m <= max_space (smaller on loss of linear independence), with the
\* recurrence coefficients alpha (m of them, real) and beta (m-1 of them).
LanczosDims(n) == 1..Min(MaxSpace, n)

\* The Operator is deterministic and linear: seeds along the same direction give
\* the same build.  known maps the directions already built to their dimension.
LanczosDimsOf(x0, known, n) ==
  IF Axis(x0) \in DOMAIN known THEN {known[Axis(x0)]} ELSE LanczosDims(n)

\* A[0] is the seed; the further vectors are orthonormal to it.
LanczosBasis(x0, m) ==
  [k \in 0..(m - 1) |->
     IF k = 0 THEN x0 ELSE Unit(Dim(x0), (Axis(x0) + k) % Dim(x0), One)]

\* The coefficients are a function of the seed: real beta from the real
\* operator, complex beta from the complex variant.
CoeffSeed(x0) == 1 + (Axis(x0) % 2)

LanczosCoeffs(x0, m, cplx) ==
  [alpha |-> [p \in 0..(m - 1) |-> <<CoeffSeed(x0) + p, 0>>],
   beta |-> [p \in 0..(m - 2) |->
               <<CoeffSeed(x0), IF cplx THEN CoeffSeed(x0) - 1 ELSE 0>>]]

\* ------------------------------------------------------------- reduced Hamiltonian
\* kernel_lanczos, first pass: Ht = numpy.zeros((m, m)), filled from alpha, beta
BuildHtReal(alpha, beta, len_tdiag) ==
  [n |-> len_tdiag,
   a |-> [pq \in (0..(len_tdiag - 1)) \X (0..(len_tdiag - 1)) |->
            IF pq[1] = pq[2] THEN alpha[pq[1]]
            ELSE IF pq[2] = pq[1] + 1 /\ pq[1] < len_tdiag - 2 THEN beta[pq[1]]
            ELSE IF pq[1] = pq[2] + 1 /\ pq[2] < len_tdiag - 2 THEN beta[pq[2]]
            ELSE Zero]]

\* the restart's fill without the conjugate on the sub-diagonal
BuildHtNoConj(alpha, beta, len_tdiag) == BuildHtReal(alpha, beta, len_tdiag)

\* kernel_lanczos, restart: Ht = numpy.zeros((m, m), complex)
BuildHtComplex(alpha, beta, len_tdiag) ==
  [n |-> len_tdiag,
   a |-> [pq \in (0..(len_tdiag - 1)) \X (0..(len_tdiag - 1)) |->
            IF pq[1] = pq[2] THEN alpha[pq[1]]
            ELSE IF pq[2] = pq[1] + 1 /\ pq[1] < len_tdiag - 2 THEN beta[pq[1]]
            ELSE IF pq[1] = pq[2] + 1 /\ pq[2] < len_tdiag - 2 THEN Conj(beta[pq[2]])
            ELSE Zero]]

\* The tridiagonal matrix of alpha[0:m] and beta[0:m-1], as
\* scipy.linalg.eigh_tridiagonal(alpha[0:m,0], beta[0:m-1,0]) reads it.
Tridiagonal(alpha, beta, len_tdiag) ==
  [n |-> len_tdiag,
   a |-> [pq \in (0..(len_tdiag - 1)) \X (0..(len_tdiag - 1)) |->
            IF pq[1] = pq[2] THEN alpha[pq[1]]
            ELSE IF pq[2] = pq[1] + 1 THEN beta[pq[1]]
            ELSE IF pq[1] = pq[2] + 1 THEN beta[pq[2]]
            ELSE Zero]]

\* ------------------------------------------------------------- time step
\* a time_limit that yields a step for every dimension
TimeLimitNeverFails(lanczos) == FALSE

\* time_limit(T, v, thr, lanczos) divides by lanczos-1: 1.0/(lanczos-1)
TimeLimitFails(lanczos) == lanczos - 1 = 0
\* the estimates it can return (0: below the resolution of the float t)
TimeLimitValues(lanczos) == 0..MaxStep

\* the build a pass made: the direction of its seed and whether the operator
\* was the complex variant; alpha, beta and Ht are functions of it
BuildKey(x0, cplx) == <<Axis(x0), cplx>>

\* a step estimate that depends on something besides its arguments
TimeLimitUnrepeatable(memo, key, lanczos) == TimeLimitValues(lanczos)

\* time_limit computes its result from T, v, thr and lanczos alone: a build
\* that was already estimated gets the same step again
TimeLimit(memo, key, lanczos) ==
  IF key \in DOMAIN memo THEN {memo[key]} ELSE TimeLimitValues(lanczos)

\* ------------------------------------------------------------- propagation
\* a propagator over one time unit whatever the estimate
ExpmUnitStep(Ht, t_lim) == [n |-> Ht.n, Ht |-> Ht, t_lim |-> 1]

\* U = scipy.linalg.expm(-(1j)*Ht*t_lim), kept as its two arguments
Expm(Ht, t_lim) == [n |-> Ht.n, Ht |-> Ht, t_lim |-> t_lim]

\* numpy.einsum('ji,i->j', U, d): the vectors U*d can be.  expm(0) is the
\* identity; otherwise U is unitary and U*d is a unit vector of dimension U.n:
\* d with a phase, or a basis vector that Ht couples to the one of d.
ApplyU(U, d) ==
  IF U.t_lim = 0 THEN {d}
  ELSE {Scale(MinusI, d)} \cup
       {Unit(U.n, k, MinusI) : k \in {j \in 0..(U.n - 1) :
                                        /\ j # Axis(d)
                                        /\ U.Ht.a[<<j, Axis(d)>>] # Zero}}

\* the product is a function of U and d: the propagator of a build already
\* applied gives the same vector again
ApplyUOf(memo, key, U, d) == IF key \in DOMAIN memo THEN {memo[key]} ELSE ApplyU(U, d)

RECURSIVE Combine(_, _, _)
\* fcivec = sum over k < n of A[k]*d_next[k]
Combine(A, dn, n) ==
  IF n = 0 THEN [k \in DOMAIN A[0] |-> Zero]
  ELSE VAdd(Combine(A, dn, n - 1), Scale(dn[n - 1], A[n - 1]))

\* Amu0[k] = numpy.dot(A[k], mu_0[i]) for k < len_tdiag
Project(A, mu, len_tdiag) == [k \in 0..(len_tdiag - 1) |-> Dot(A[k], mu)]

\* a loop condition that is off by one
LoopCondInclusive(time, limit) == time <= limit

\* while (t < maxtime)
LoopCond(time, limit) == time < limit

\* ------------------------------------------------------------- pspace selection
\* the lists of np distinct addresses
AddressLists(hd, np) ==
  {s \in [1..np -> DOMAIN hd] : \A j, k \in 1..np : j # k => s[j] # s[k]}

\* a list of addresses in increasing order
Ascending(s) == \A j, k \in DOMAIN s : j < k => s[j] < s[k]

\* a selection that takes the first np addresses whatever their energies
FirstAddresses(hd, np) == {[k \in 1..np |-> k - 1]}

\* numpy.argpartition(hdiag, np-1)[:np]: np addresses none of which has a higher
\* diagonal energy than an address left out, in an order numpy does not specify
\* (numpy.argsort(hdiag)[:np], the fallback, is one of these lists)
ArgPartition(hd, np) ==
  {s \in AddressLists(hd, np) :
     \A k \in 1..np : \A b \in DOMAIN hd :
       (\A j \in 1..np : s[j] # b) => hd[s[k]] <= hd[b]}

\* the largest norb whose strings pspace packs into 64-bit addresses
PackLimit == 63

\* hdiaginv[abs(hdiaginv)>1e8] = 1e8
PrecondCap == 100000000

\* extra keyword options a caller of _kfactory may give: one that the solver
\* has as an attribute, one that FCIBase.kernel has as a parameter, one that
\* nothing knows
OptionKeys == {"threads", "maxtime", "foo"}

\* attributes of a new solver (class attributes, __init__, and the eight
\* assignments at the head of _kfactory)
SolverAttrs == {"threads", "lessio", "verbose", "max_memory", "converged", "nroots",
                "level_shift", "conv_tol", "lindep", "max_cycle", "max_space",
                "davidson_only", "pspace_size"}

\* ------------------------------------------------------------- state
VARIABLES
  pc,            \* position in FCIBase.kernel / kernel_lanczos
  err,           \* the exception that ended the call, "" if none
  nab,           \* na*nb, the number of determinants
  pspace_size, nroots, davidson_only, ci0_none,
  driver,        \* "kernel_lanczos" (called by FCIBase.kernel) | "kernel_ms1"
  complex_h,     \* h1e or eri has dtype complex128
  norb,
  hdiag,         \* the Hamiltonian diagonal: the diagonal energy of each determinant address
  argpart,       \* what numpy.argpartition(hdiag, np-1)[:np] evaluates to, <<>> when it is not called
  e0_shift,      \* e0 - level_shift the preconditioner is called with, in the units of hdiag
  dav_nconv,     \* how many of the lowest roots the Davidson iteration converges
  entry,         \* "_kfactory" | "kernel": the function the caller invoked
  kwargs,        \* the extra keyword options given to _kfactory
  gap,           \* pw[1] - pw[0] of the sub-block, in units of 1e-12
  maxtime,
  solver,        \* "" | "pspace" | "davidson": what produced the eigenpair
  ret,           \* the tuple kernel_lanczos returned, <<>> before it returns
  converged,     \* the solver attribute: [scalar |-> is it one boolean, flags |-> its value(s)]
  addr,          \* addresses of the sub-block determinants, <<>> before pspace
  pw,            \* "None" | "eigh(h0)": the sub-block eigenvalues
  h0,            \* the sub-block pspace returned: its size and its diagonal
  hdiaginv,      \* the reciprocals the pspace preconditioner multiplies with, <<>> before it runs
  precond,       \* "" | "diag" | "pspace": the preconditioner built
  omp_threads,   \* the thread-count setting in force: "ambient" | "fci.threads"
  hop_threads,   \* <<site, setting>>: the setting under which each site applied hop
  aop_log,       \* the Krylov builds made so far: site, aop, are contract_2e's vectors real
  attrs,         \* the solver object's attributes
  kernel_kwargs, \* the keyword options _kfactory passed on to cis.kernel
  warnings,      \* the messages _kfactory wrote to stderr: the keys each one lists
  c,             \* the ground state the eigen-solve returned, <<>> before it
  mu_0,          \* the three normalized dipole seeds
  i,             \* polarization axis of the outer loop
  A, alpha, beta, len_tdiag, Ht,
  krylov_dim,    \* Krylov dimension of each seed direction built so far
  step_memo,     \* the step time_limit returned for each build made so far
  amp_memo,      \* the product U*d obtained from each build's propagator so far
  run,           \* 1 in the first call, 2 in the repetition of it
  run1,          \* what the first call returned and recorded, <<>> before it is repeated
  dip_memo,      \* the address the dipole integrals send the ground state to, -1 before contract_1e
  t_lim, U, d, d_next, fcivec, Amu0,
  t, refresh,
  grid, dipole_corr, list_left, list_htdiag,
  files          \* the artifacts written by numpy.save / numpy.savetxt

inputs == <<nab, pspace_size, nroots, davidson_only, ci0_none, gap, maxtime,
            driver, complex_h, norb, dav_nconv, entry, kwargs, hdiag, argpart, e0_shift>>
eigen == <<converged, addr, pw, precond, h0, hdiaginv>>
threads == <<omp_threads, hop_threads, aop_log>>
factory == <<attrs, kernel_kwargs, warnings>>
krylov == <<A, alpha, beta, len_tdiag, Ht, krylov_dim>>
numerics == <<step_memo, amp_memo, dip_memo>>
reruns == <<run, run1>>
amps == <<t_lim, U, d, d_next, fcivec, Amu0>>
accum == <<grid, dipole_corr, list_left, list_htdiag>>
vars == <<pc, err, inputs, solver, ret, eigen, threads, factory, c, mu_0, i, krylov, numerics, reruns, amps, t, refresh,
          accum, files>>

\* The calls explored: every solver setting with the shortest maxtime, the
\* large-system setting (sub-block smaller than the space) with every maxtime,
\* unconverged Davidson roots on the large-system setting, and _kfactory with
\* every set of extra options on a real, single-root problem.
Init ==
  /\ entry \in {"_kfactory", "kernel"}
  /\ pc = entry
  /\ attrs = [k \in SolverAttrs |-> "default"]
  /\ kernel_kwargs = <<>>
  /\ warnings = <<>>
  /\ err = ""
  /\ nab \in 1..MaxDet
  /\ pspace_size \in 0..MaxDet
  /\ nroots \in 1..MaxRoots
  /\ davidson_only \in BOOLEAN
  /\ ci0_none \in BOOLEAN
  /\ gap \in 0..2
  /\ maxtime \in 1..MaxTime
  /\ driver \in {"kernel_lanczos", "kernel_ms1"}
  /\ complex_h \in BOOLEAN
  /\ norb \in {PackLimit, PackLimit + 1}
  /\ dav_nconv \in 0..MaxRoots
  /\ norb > PackLimit => nab = 1
  /\ \/ maxtime = 1
     \/ /\ pspace_size = 0
        /\ nroots = 1
        /\ ~davidson_only
        /\ ci0_none
        /\ gap = 2
        /\ driver = "kernel_lanczos"
        /\ ~complex_h
        /\ norb = PackLimit
        /\ dav_nconv = MaxRoots
  /\ dav_nconv < MaxRoots =>
        maxtime = 1 /\ pspace_size = 0 /\ ci0_none /\ gap = 2 /\ ~davidson_only
  /\ entry = "_kfactory" =>
        /\ maxtime = 1 /\ nroots = 1 /\ ci0_none /\ gap = 2 /\ ~davidson_only
        /\ driver = "kernel_lanczos" /\ ~complex_h /\ norb = PackLimit /\ dav_nconv = MaxRoots
  /\ kwargs \in IF entry = "kernel" THEN {<<>>}
               ELSE UNION {[K -> {"given"}] : K \in SUBSET OptionKeys}
  /\ LET varied == /\ driver = "kernel_ms1" /\ entry = "kernel" /\ maxtime = 1 /\ nroots = 1
                    /\ ci0_none /\ gap = 0 /\ ~davidson_only
                    /\ ~complex_h /\ norb = PackLimit /\ dav_nconv = MaxRoots
         np == Max(pspace_size, Min(nab, nroots))
     IN /\ hdiag \in IF varied THEN [0..(nab - 1) -> 0..MaxEnergy]
                      ELSE {[k \in 0..(nab - 1) |-> Min(k, MaxEnergy)]}
        /\ argpart \in IF nab < np THEN {<<>>}
                        ELSE IF varied THEN ArgPartition(hdiag, np)
                        ELSE {s \in ArgPartition(hdiag, np) : Ascending(s)}
        /\ e0_shift \in IF varied /\ Ascending(argpart) THEN 0..MaxEnergy ELSE {0}
  /\ solver = ""
  /\ ret = <<>>
  /\ converged = [scalar |-> TRUE, flags |-> <<FALSE>>]
  /\ addr = <<>>
  /\ pw = "None"
  /\ precond = ""
  /\ h0 = [n |-> 0, diag |-> <<>>]
  /\ hdiaginv = <<>>
  /\ omp_threads = "ambient"
  /\ hop_threads = {}
  /\ aop_log = {}
  /\ c = <<>>
  /\ mu_0 = <<>>
  /\ i = 0
  /\ A = <<>> /\ alpha = <<>> /\ beta = <<>> /\ len_tdiag = 0 /\ Ht = [n |-> 0, a |-> <<>>]
  /\ krylov_dim = <<>>
  /\ step_memo = <<>> /\ amp_memo = <<>> /\ dip_memo = -1
  /\ run = 1 /\ run1 = <<>>
  /\ t_lim = 0 /\ U = [n |-> 0, Ht |-> [n |-> 0, a |-> <<>>], t_lim |-> 0]
  /\ d = <<>> /\ d_next = <<>> /\ fcivec = <<>> /\ Amu0 = <<>>
  /\ t = 0 /\ refresh = 0
  /\ grid = <<>> /\ dipole_corr = <<>> /\ list_left = <<>> /\ list_htdiag = <<>>
  /\ files = {}

Raise(e) == pc' = "raised" /\ err' = e

\* ------------------------------------------------------------- _kfactory
\* if not hasattr(cis, k): unknown[k] = kwargs[k]
UnknownOptions(kw, at) == [k \in (DOMAIN kw) \ (DOMAIN at) |-> kw[k]]

\* a loop that sets only the options the solver already has
ApplyKnownOptions(kw, at) ==
  [k \in DOMAIN at |-> IF k \in DOMAIN kw THEN kw[k] ELSE at[k]]

\* setattr(cis, k, kwargs[k]) for every k in kwargs
ApplyOptions(kw, at) ==
  [k \in (DOMAIN at) \cup (DOMAIN kw) |-> IF k \in DOMAIN kw THEN kw[k] ELSE at[k]]

\* the solver is configured from the extra options, the unknown ones are
\* reported once on stderr and passed on to cis.kernel
KFactory ==
  /\ pc = "_kfactory"
  /\ LET unknown == UnknownOptions(kwargs, attrs) IN
       /\ attrs' = ApplyOptions(kwargs, attrs)
       /\ warnings' = IF DOMAIN unknown # {} THEN Append(warnings, DOMAIN unknown) ELSE warnings
       /\ kernel_kwargs' = unknown
  /\ pc' = "kernel"
  /\ UNCHANGED <<err, inputs, reruns, solver, ret, eigen, threads, c, mu_0, i, krylov, amps, t, refresh,
                 accum, files, numerics>>

\* FCIBase.kernel called without the keyword maxtime: maxtime = None
MaxtimeNone == entry = "_kfactory" /\ "maxtime" \notin DOMAIN kernel_kwargs

\* ------------------------------------------------------------- eigen-solve stage
\* abs(pw[0]-pw[1]) > 1e-12
GapOpen(g) == g > 1

\* if pspace_size >= na*nb and ci0 is None and not davidson_only
DirectSolve == pspace_size >= nab /\ ci0_none /\ ~davidson_only

\* the three returns inside the direct solve; <<>> when none is taken
DirectReturn(n, roots, g) ==
  IF n = 1 THEN <<"pw[0]+ecore", "pv">>
  ELSE IF roots > 1 THEN <<"pw[:nroots]+ecore", "civecs">>
  ELSE IF GapOpen(g) THEN <<"pw[0]+ecore", "civec">>
  ELSE <<>>

\* a diagonal construction without the dtype test
make_hdiag_unchecked(cplx) == ""

\* make_hdiag: the message of the NotImplementedError it raises, "" if none
make_hdiag(cplx) == IF cplx THEN "Complex Hamiltonian" ELSE ""

\* absorb_h1e: the message of the NotImplementedError it raises, "" if none
absorb_h1e(cplx) == IF cplx THEN "Complex Hamiltonian" ELSE ""

\* addr: every address in order when hdiag.size < np, else the partition's list
PspaceAddr(hd, np, part) ==
  IF Dim(hd) < np THEN [k \in 1..Dim(hd) |-> k - 1] ELSE part

\* h0 = numpy.zeros((np,np)) with np = len(addr); h0[idx,idx] = hdiag[addr]
SubBlock(hd, ad) == [n |-> Len(ad), diag |-> [k \in 1..Len(ad) |-> hd[ad[k]]]]

\* a pspace without the norb test
pspace_unlimited(n_orb, cplx, hd, np, part) ==
  IF cplx THEN [raises |-> "Complex Hamiltonian", addr |-> <<>>, h0 |-> SubBlock(hd, <<>>)]
  ELSE LET ad == PspaceAddr(hd, np, part) IN [raises |-> "", addr |-> ad, h0 |-> SubBlock(hd, ad)]

\* pspace: the message of the NotImplementedError it raises ("" if none), addr and
\* h0; part is the list numpy.argpartition gives for hd and np
pspace(n_orb, cplx, hd, np, part) ==
  IF n_orb > PackLimit THEN [raises |-> "norb > 63", addr |-> <<>>, h0 |-> SubBlock(hd, <<>>)]
  ELSE IF cplx THEN [raises |-> "Complex Hamiltonian", addr |-> <<>>, h0 |-> SubBlock(hd, <<>>)]
  ELSE LET ad == PspaceAddr(hd, np, part) IN [raises |-> "", addr |-> ad, h0 |-> SubBlock(hd, ad)]

\* ------------------------------------------------------------- preconditioner
Abs(x) == IF x < 0 THEN -x ELSE x

Sign(x) == IF x < 0 THEN -1 ELSE IF x > 0 THEN 1 ELSE 0

\* 1/0.0 in numpy: inf (a warning, no exception); above every finite reciprocal
Infinity == 4 * PrecondCap

\* 1/(hdiag - (e0-level_shift)), energies counted in units of 5e-9
Reciprocal(den) == IF den = 0 THEN Infinity ELSE (2 * PrecondCap) \div den

\* a cap that keeps the sign of the reciprocal
ClampKeepingSign(r) == Sign(r) * Min(Abs(r), PrecondCap)

\* hdiaginv[abs(hdiaginv)>1e8] = 1e8
Clamp(r) == IF Abs(r) > PrecondCap THEN PrecondCap ELSE r

\* make_pspace_precond.precond: hdiaginv after its first two statements
PrecondReciprocals(hd, shift) == [k \in DOMAIN hd |-> Clamp(Reciprocal(hd[k] - shift))]

\* FCIBase.make_precond: diagonal preconditioner when there are no sub-block eigenvalues
make_precond(pspaceig) == IF pspaceig = "None" THEN "diag" ELSE "pspace"

\* FCIBase.eig on a dense matrix: self.converged = True
DenseConverged == [scalar |-> TRUE, flags |-> <<TRUE>>]

\* the driver returns to FCIBase.kernel (kernel_lanczos) or to its caller (kernel_ms1)
ReturnTo(drv) == IF drv = "kernel_lanczos" THEN "returned" ELSE "done"

\* the driver up to the choice between the direct solve and Davidson
SolveSetup ==
  /\ pc = "kernel"
  /\ IF make_hdiag(complex_h) # ""
     THEN Raise("NotImplementedError") /\ UNCHANGED <<nroots, solver, ret, eigen>>
     ELSE LET roots == Min(nab, nroots)
              ps == pspace(norb, complex_h, hdiag, Max(pspace_size, roots), argpart)
              caught == ps.raises # ""
              eigs == IF ~caught /\ pspace_size > 0 THEN "eigh(h0)" ELSE "None"
              direct == IF ~caught /\ DirectSolve THEN DirectReturn(nab, roots, gap) ELSE <<>>
          IN /\ nroots' = roots
             /\ addr' = IF caught THEN <<0>> ELSE ps.addr
             /\ h0' = IF caught THEN h0 ELSE ps.h0
             /\ hdiaginv' = hdiaginv
             /\ pw' = eigs
             /\ converged' = IF eigs # "None" THEN DenseConverged ELSE converged
             /\ IF direct # <<>>
                THEN /\ ret' = direct
                     /\ solver' = "pspace"
                     /\ pc' = ReturnTo(driver)
                     /\ UNCHANGED <<err, precond>>
                ELSE /\ precond' = make_precond(eigs)
                     /\ IF absorb_h1e(complex_h) # ""
                        THEN Raise("NotImplementedError")
                        ELSE pc' = "davidson" /\ err' = err
                     /\ UNCHANGED <<ret, solver>>
  /\ UNCHANGED <<reruns, nab, pspace_size, davidson_only, ci0_none, gap, maxtime,
                 driver, complex_h, norb, dav_nconv, entry, kwargs, hdiag, argpart, e0_shift, threads, factory,
                 c, mu_0, i, krylov, amps, t, refresh, accum, files, numerics>>

\* with lib.with_omp_threads(n): the setting inside the block and after it
with_omp_threads(prev, n) == [inside |-> n, after |-> prev]

\* lib.davidson1: the per-root convergence flags it returns
DavidsonFlags(roots, nconv) == [k \in 1..roots |-> k <= nconv]

\* an eig that stores the list of flags whatever nroots is
RecordConvergedList(flags, roots) == [scalar |-> FALSE, flags |-> flags]

\* FCIBase.eig: self.converged is the list, or its only entry when nroots == 1
RecordConverged(flags, roots) ==
  IF roots = 1 THEN [scalar |-> TRUE, flags |-> <<flags[1]>>]
  ELSE [scalar |-> FALSE, flags |-> flags]

\* kernel_ms1: return e+ecore, c.reshape(na,nb) (a list of them when nroots > 1)
Ms1Return(roots) == IF roots > 1 THEN <<"e+ecore", "[ci]">> ELSE <<"e+ecore", "c">>

\* the eigenvector lib.davidson1 returns for the lowest root
GroundState(n) == Unit(n, 0, One)

\* e, c = fci.eig(hop, ci0, precond, ...); kernel_ms1 returns, kernel_lanczos goes
\* on to nconf = c.shape[0], which needs an array
Davidson ==
  /\ pc = "davidson"
  /\ solver' = "davidson"
  /\ converged' = RecordConverged(DavidsonFlags(nroots, dav_nconv), nroots)
  /\ LET scope == with_omp_threads(omp_threads, "fci.threads") IN
       /\ hop_threads' = hop_threads \cup {<<"davidson", scope.inside>>}
       /\ omp_threads' = scope.after
  /\ aop_log' = aop_log
  /\ c' = GroundState(nab)
  /\ hdiaginv' = IF precond = "pspace" THEN PrecondReciprocals(hdiag, e0_shift) ELSE hdiaginv
  /\ IF driver = "kernel_ms1"
     THEN ret' = Ms1Return(nroots) /\ pc' = "done" /\ err' = err
     ELSE /\ ret' = ret
          /\ IF nroots > 1 THEN Raise("AttributeError") ELSE pc' = "seeds" /\ err' = err
  /\ UNCHANGED <<inputs, reruns, addr, pw, precond, h0, factory, mu_0, i, krylov, amps, t, refresh,
                 accum, files, numerics>>

\* the dipole integrals are an input: once contract_1e has been seen to send the
\* ground state to an address, it does so again
DipoleOf(memo, n) == IF memo >= 0 THEN {memo} ELSE 0..(n - 1)

\* mu_0[i] = contract_1e(mo_dip[i], c, ...); mu_0[i] *= 1.0/nrm2, for the three axes
RawDipole(n, j) == [ax \in 0..2 |-> Scale(<<ax + 1, 0>>, Unit(n, (j + ax) % n, One))]

\* seeds left as contract_1e returned them
SeedsNotNormalized(raw) == raw

NormalizeSeeds(raw) == [ax \in DOMAIN raw |-> DivBy(raw[ax], Norm(raw[ax]))]

SeedInit ==
  /\ pc = "seeds"
  /\ \E j \in DipoleOf(dip_memo, nab) :
       /\ mu_0' = NormalizeSeeds(RawDipole(nab, j))
       /\ dip_memo' = j
  /\ i' = 0
  /\ pc' = "axis"
  /\ UNCHANGED <<err, inputs, reruns, solver, ret, eigen, factory, threads, c, krylov, amps, t, refresh, accum, files,
                 step_memo, amp_memo>>

\* ------------------------------------------------------------- propagation stage
RealVec(v) == \A k \in DOMAIN v : Im(v[k]) = 0

\* c.real and c.imag
RealPart(v) == [k \in DOMAIN v |-> <<Re(v[k]), 0>>]

ImagPart(v) == [k \in DOMAIN v |-> <<Im(v[k]), 0>>]

\* the vectors fci.contract_2e is given: c itself by hop, c.real and c.imag by hop_complex
ContractArgs(aop, x) == IF aop = "hop" THEN {x} ELSE {RealPart(x), ImagPart(x)}

\* one Krylov build: where it is, the aop it is given, whether contract_2e sees only real vectors
AopCall(site, aop, x0) ==
  [site |-> site, aop |-> aop, real |-> \A a \in ContractArgs(aop, x0) : RealVec(a)]

\* lib.lanczos_tridiagonalize(aop=hop, x0=mu_0[i], ...)
FirstAop == "hop"

\* a restart that keeps the operator of the first pass
RestartAopReal == "hop"

\* lib.lanczos_tridiagonalize(aop=hop_complex, x0=fcivec, ...)
RestartAop == "hop_complex"

\* an axis loop that skips only the first axis
SkipFirstAxisOnly(ax) == ax < 1

\* if i < 2: print("skip loop", i); continue
SkipAxis(ax) == ax < 2

\* for i in range(3): a skipped axis goes straight to the next one
AxisSkip ==
  /\ pc = "axis"
  /\ i < 3
  /\ SkipAxis(i)
  /\ i' = i + 1
  /\ UNCHANGED <<pc, err, inputs, reruns, solver, ret, eigen, factory, threads, c, mu_0, krylov, amps, t, refresh, accum, files, numerics>>

\* first Krylov pass on the real seed: Lanczos build, Ht, eigh_tridiagonal, time_limit
FirstBuild ==
  /\ pc = "axis"
  /\ i < 3
  /\ ~SkipAxis(i)
  /\ \E m \in LanczosDimsOf(mu_0[i], krylov_dim, nab) :
     LET co == LanczosCoeffs(mu_0[i], m, FirstAop = "hop_complex") IN
       /\ LET scope == with_omp_threads(omp_threads, "fci.threads") IN
            /\ hop_threads' = hop_threads \cup {<<"first_lanczos", scope.inside>>}
            /\ omp_threads' = scope.after
       /\ aop_log' = aop_log \cup {AopCall("first_lanczos", FirstAop, mu_0[i])}
       /\ krylov_dim' = (Axis(mu_0[i]) :> m) @@ krylov_dim
       /\ A' = LanczosBasis(mu_0[i], m)
       /\ alpha' = co.alpha
       /\ beta' = co.beta
       /\ len_tdiag' = m
       /\ Ht' = BuildHtReal(co.alpha, co.beta, m)
       /\ IF TimeLimitFails(m)
          THEN Raise("ZeroDivisionError") /\ UNCHANGED <<t_lim, step_memo>>
          ELSE /\ LET key == BuildKey(mu_0[i], FirstAop = "hop_complex") IN
                    \E tl \in TimeLimit(step_memo, key, m) :
                       t_lim' = tl /\ step_memo' = (key :> tl) @@ step_memo
               /\ pc' = "first_sample"
               /\ err' = err
  /\ UNCHANGED <<inputs, reruns, solver, ret, eigen, factory, c, mu_0, i, U, d, d_next, fcivec, Amu0,
                 t, refresh, accum, files, amp_memo, dip_memo>>

\* one correlation sample: the overlap and the time of its phase exp(1j*e*t)
SampleOf(left, amp, time) == [amp |-> Dot(left, amp), phase_t |-> time]

\* a step with a floor of one time unit
AdvanceWithFloor(time, step) == time + Max(step, 1)

\* t += t_lim
Advance(time, step) == time + step

\* the accumulator is set up and the t = 0 sample recorded; the first test of
\* while (t < maxtime) follows, which cannot compare a number with None
FirstSample ==
  /\ pc = "first_sample"
  /\ d' = Unit(len_tdiag, 0, One)
  /\ refresh' = 1
  /\ Amu0' = Project(A, mu_0[i], len_tdiag)
  /\ list_left' = <<Amu0'>>
  /\ list_htdiag' = <<Ht>>
  /\ dipole_corr' = <<SampleOf(Amu0', d', 0)>>
  /\ U' = Expm(Ht, t_lim)
  /\ t' = Advance(0, t_lim)
  /\ grid' = <<0, t'>>
  /\ IF MaxtimeNone THEN Raise("TypeError") ELSE pc' = "loop" /\ err' = err
  /\ UNCHANGED <<inputs, reruns, solver, ret, eigen, factory, threads, c, mu_0, i, krylov, t_lim, d_next, fcivec, files, numerics>>

\* a restart that writes its seed into the row of mu_0
SeedOverwritten(seeds, ax, rebuilt) == [seeds EXCEPT ![ax] = rebuilt]

\* fcivec is a new array (numpy.zeros) filled from A and d_next: mu_0 is only read
SeedKept(seeds, ax, rebuilt) == seeds

\* loop head and the start of a restart: d_next = U*d, fcivec rebuilt and normalized
Propagate ==
  /\ pc = "loop"
  /\ LoopCond(t, maxtime)
  /\ refresh <= MaxRestarts
  /\ IF U.n # Dim(d)
     THEN Raise("ValueError") /\ UNCHANGED <<d_next, fcivec, mu_0, amp_memo>>
     ELSE /\ LET key == BuildKey(A[0], refresh > 1) IN
               \E dn \in ApplyUOf(amp_memo, key, U, d) :
               /\ amp_memo' = (key :> dn) @@ amp_memo
               /\ d_next' = dn
               /\ fcivec' = DivBy(Combine(A, dn, len_tdiag), Norm(Combine(A, dn, len_tdiag)))
               /\ mu_0' = SeedKept(mu_0, i, fcivec')
          /\ pc' = "rebuild"
          /\ err' = err
  /\ UNCHANGED <<inputs, reruns, solver, ret, eigen, factory, threads, c, i, krylov, t_lim, U, d, Amu0,
                 t, refresh, accum, files, step_memo, dip_memo>>

\* the restart's Krylov pass on fcivec with the complex operator: Ht, eigh, time_limit, U
Rebuild ==
  /\ pc = "rebuild"
  /\ \E m \in LanczosDimsOf(fcivec, krylov_dim, nab) :
     LET co == LanczosCoeffs(fcivec, m, RestartAop = "hop_complex") IN
       /\ hop_threads' = hop_threads \cup {<<"restart_lanczos", omp_threads>>}
       /\ omp_threads' = omp_threads
       /\ aop_log' = aop_log \cup {AopCall("restart_lanczos", RestartAop, fcivec)}
       /\ krylov_dim' = (Axis(fcivec) :> m) @@ krylov_dim
       /\ A' = LanczosBasis(fcivec, m)
       /\ alpha' = co.alpha
       /\ beta' = co.beta
       /\ len_tdiag' = m
       /\ Ht' = BuildHtComplex(co.alpha, co.beta, m)
       /\ IF TimeLimitFails(m)
          THEN Raise("ZeroDivisionError") /\ UNCHANGED <<t_lim, refresh, U, step_memo>>
          ELSE /\ LET key == BuildKey(fcivec, RestartAop = "hop_complex") IN
                    \E tl \in TimeLimit(step_memo, key, m) :
                       t_lim' = tl /\ step_memo' = (key :> tl) @@ step_memo
               /\ refresh' = refresh + 1
               /\ U' = Expm(Ht', t_lim')
               /\ pc' = "sample"
               /\ err' = err
  /\ UNCHANGED <<inputs, reruns, solver, ret, eigen, factory, c, mu_0, i, d, d_next, fcivec, Amu0, t, accum, files,
                 amp_memo, dip_memo>>

\* a loop body that ends with d = d_next
AmplitudeCarried(cur, produced) == produced

\* The loop body never assigns d: the amplitude vector the next restart starts
\* from is the one this restart started from, whatever d_next it produced.
AmplitudeKept(cur, produced) == cur

\* a list that takes its new entry at the front
ListInsertFirst(list, x) == <<x>> \o list

\* list.append(x)
ListAppend(list, x) == Append(list, x)

\* the restart's sample: projections and Ht recorded, numpy.dot(Amu0, d), time advanced
Sample ==
  /\ pc = "sample"
  /\ Amu0' = Project(A, mu_0[i], len_tdiag)
  /\ list_left' = ListAppend(list_left, Amu0')
  /\ list_htdiag' = ListAppend(list_htdiag, Ht)
  /\ IF Dim(Amu0') # Dim(d)
     THEN Raise("ValueError") /\ UNCHANGED <<dipole_corr, t, grid>>
     ELSE /\ dipole_corr' = ListAppend(dipole_corr, SampleOf(Amu0', d, t))
          /\ t' = Advance(t, t_lim)
          /\ grid' = ListAppend(grid, t')
          /\ pc' = "loop"
          /\ err' = err
  /\ d' = AmplitudeKept(d, d_next)
  /\ UNCHANGED <<inputs, reruns, solver, ret, eigen, factory, threads, c, mu_0, i, krylov, t_lim, U, d_next, fcivec,
                 refresh, files, numerics>>

\* numpy.save("dip_"+str(i)+".npy"), numpy.save("Ht_"+...), numpy.savetxt("lan_nodes_"+...)
AxisFiles(ax) == {<<"dip", ax>>, <<"Ht", ax>>, <<"lan_nodes", ax>>}

\* loop exit: the three artifacts of the axis are written
Save ==
  /\ pc = "loop"
  /\ ~LoopCond(t, maxtime)
  /\ files' = files \cup AxisFiles(i)
  /\ i' = i + 1
  /\ pc' = "axis"
  /\ UNCHANGED <<err, inputs, reruns, solver, ret, eigen, factory, threads, c, mu_0, krylov, amps, t, refresh, accum, numerics>>

\* return e, numpy.array(grid), numpy.array(dipole_corr)
PropagationReturn == <<"e", "grid", "dipole_corr">>

Return ==
  /\ pc = "axis"
  /\ i = 3
  /\ ret' = PropagationReturn
  /\ pc' = "returned"
  /\ UNCHANGED <<err, inputs, reruns, solver, eigen, factory, threads, c, mu_0, i, krylov, amps, t, refresh, accum, files, numerics>>

\* what a call that went through the propagation leaves behind
Outcome == [ret |-> ret, refresh |-> refresh, grid |-> grid, dipole_corr |-> dipole_corr,
            list_left |-> list_left, list_htdiag |-> list_htdiag]

\* kernel_lanczos is called a second time, independently of the first call: the
\* same arguments, a new solver object, new locals, no artifacts; the integrals,
\* the Operator, the Lanczos build and the numerical routines are the same
\* functions as before
Rerun ==
  /\ pc = "returned"
  /\ ret = PropagationReturn
  /\ entry = "kernel"
  /\ run = 1
  /\ run' = 2
  /\ run1' = Outcome
  /\ pc' = "kernel"
  /\ solver' = ""
  /\ ret' = <<>>
  /\ converged' = [scalar |-> TRUE, flags |-> <<FALSE>>]
  /\ addr' = <<>>
  /\ pw' = "None"
  /\ precond' = ""
  /\ h0' = [n |-> 0, diag |-> <<>>]
  /\ hdiaginv' = <<>>
  /\ omp_threads' = "ambient"
  /\ hop_threads' = {}
  /\ aop_log' = {}
  /\ c' = <<>>
  /\ mu_0' = <<>>
  /\ i' = 0
  /\ A' = <<>> /\ alpha' = <<>> /\ beta' = <<>> /\ len_tdiag' = 0 /\ Ht' = [n |-> 0, a |-> <<>>]
  /\ t_lim' = 0 /\ U' = [n |-> 0, Ht |-> [n |-> 0, a |-> <<>>], t_lim |-> 0]
  /\ d' = <<>> /\ d_next' = <<>> /\ fcivec' = <<>> /\ Amu0' = <<>>
  /\ t' = 0 /\ refresh' = 0
  /\ grid' = <<>> /\ dipole_corr' = <<>> /\ list_left' = <<>> /\ list_htdiag' = <<>>
  /\ files' = {}
  /\ UNCHANGED <<err, inputs, factory, krylov_dim, numerics>>

\* FCIBase.kernel: self.eci, lan_nodes, dipole_corr, list_htdiag, list_left = kernel_lanczos(...)
KernelArity == 5

\* _kfactory: e, c = cis.kernel(...)
FactoryArity == 2

\* FCIBase.kernel unpacks what kernel_lanczos returned and returns the five
\* values, which _kfactory (when it is the caller) unpacks into e, c
KernelUnpack ==
  /\ pc = "returned"
  /\ IF Len(ret) = KernelArity /\ (entry = "_kfactory" => KernelArity = FactoryArity)
     THEN pc' = "done" /\ err' = err
     ELSE Raise("ValueError")
  /\ UNCHANGED <<inputs, reruns, solver, ret, eigen, factory, threads, c, mu_0, i, krylov, amps, t, refresh, accum, files, numerics>>

Next ==
  \/ KFactory
  \/ SolveSetup
  \/ Davidson
  \/ SeedInit
  \/ AxisSkip
  \/ FirstBuild
  \/ FirstSample
  \/ Propagate
  \/ Rebuild
  \/ Sample
  \/ Save
  \/ Return
  \/ KernelUnpack
  \/ Rerun

Spec == Init /\ [][Next]_vars

\* ------------------------------------------------------------- properties
\* a step of one call of the driver (not the step that starts the second call)
WithinCall == run' = run

\* kernel_lanczos has left its loop: artifacts written
Done == <<"lan_nodes", 2>> \in files

\* every step taken so far was positive
StepsPositive == \A k \in 1..(Len(grid) - 1) : grid[k] < grid[k + 1]

\* C1: every return of kernel_lanczos hands FCIBase.kernel the five values it
\* unpacks, so kernel never fails on the unpacking.
C1_KernelGetsFiveValues == pc = "returned" => Len(ret) = KernelArity

\* C2: the time grid starts at 0, never decreases, and every entry but the last
\* is below maxtime (so the last is below maxtime plus the final step).
C2_GridMonotoneBounded ==
  Len(grid) >= 1 =>
    /\ grid[1] = 0
    /\ \A k \in 1..(Len(grid) - 1) : grid[k] <= grid[k + 1] /\ grid[k] < maxtime

C2_Witness == Done /\ StepsPositive /\ Len(grid) >= 3 /\ grid[Len(grid)] > maxtime

\* C5: at Done there is exactly one correlation sample per time-grid point.
C5_OneSamplePerGridPoint == Done => Len(grid) = Len(dipole_corr)

\* C6: the sample recorded at t = 0 is 1.0 + 0i (overlap 1, phase exp(i*E0*0)),
\* the first Krylov vector of the first pass being the normalized seed.
C6_FirstSampleIsOne ==
  Len(dipole_corr) >= 1 => dipole_corr[1] = [amp |-> One, phase_t |-> 0]

C6_Witness ==
  /\ pc = "loop"
  /\ refresh = 1
  /\ A[0] = mu_0[2]
  /\ Len(dipole_corr) = 1

\* C3: with positive step estimates the loop is eventually left through its
\* loop check (artifacts written): a call that entered the loop and took only
\* positive steps does not end before that.
C3_LoopReachesDone == (pc = "raised" /\ refresh >= 1 /\ StepsPositive) => Done

\* C4: no restart ceiling and no step floor.  While the cumulative time is below
\* maxtime nothing is written or returned; at the loop head with the time below
\* maxtime the only step is into another restart, whatever the restart count;
\* the restart that follows a zero step rebuilds the same Krylov dimension and
\* reaches its sample; and a sample advances the time by exactly the restart's
\* own estimate, zero included, back to the loop head.
C4_NoCeilingNoFloor ==
  /\ []((refresh >= 1 /\ LoopCond(t, maxtime)) => (files = {} /\ ret = <<>>))
  /\ [][(pc = "loop" /\ LoopCond(t, maxtime)) => pc' = "rebuild"]_vars
  /\ [][(pc = "rebuild" /\ U.t_lim = 0) => (pc' = "sample" /\ len_tdiag' = len_tdiag)]_vars
  /\ [][(pc = "sample" /\ len_tdiag = Dim(d)) =>
          (pc' = "loop" /\ t' = t + t_lim /\ refresh' = refresh)]_vars

C4_Witness ==
  /\ pc = "loop"
  /\ refresh = MaxRestarts + 1
  /\ t = 0
  /\ LoopCond(t, maxtime)
  /\ files = {}

\* C7 as stated: the amplitude vector a restart produced is the one the next
\* restart starts from.
C7_AmplitudeCarriedForward == (pc = "loop" /\ refresh >= 2) => d = d_next

\* C7 amended: the amplitude vector is the first canonical basis vector of the
\* first pass's dimension throughout; every restart applies its propagator to
\* it and samples with it (the sample is the first projection), and the
\* amplitudes a restart produces only rebuild that restart's seed.
C7_AmplitudeStaysFirstBasisVector ==
  refresh >= 1 =>
    /\ d = Unit(list_htdiag[1].n, 0, One)
    /\ \A k \in 1..Len(dipole_corr) : dipole_corr[k].amp = list_left[k][0]
    /\ pc = "rebuild" => d_next \in ApplyU(U, Unit(list_htdiag[1].n, 0, One))

C7_Witness == pc = "loop" /\ refresh >= 3 /\ d_next # d

\* C8: a restart whose Krylov dimension differs from that of the amplitude
\* vector in use completes without a shape error.
C8_DimensionChangeCompletes ==
  ~(pc = "raised" /\ err = "ValueError" /\ ret = <<>> /\ len_tdiag # Dim(d))

\* C9: Ht is the full tridiagonal matrix of alpha and beta (diagonal alpha[p],
\* off-diagonals beta[p] and its conjugate for p in 0..m-2), and on the first
\* pass the matrix that eigh_tridiagonal decomposes.
C9_HtIsFullTridiagonal ==
  Ht.n >= 1 =>
    /\ \A p \in 0..(Ht.n - 1) : Ht.a[<<p, p>>] = alpha[p]
    /\ \A p \in 0..(Ht.n - 2) :
         Ht.a[<<p, p + 1>>] = beta[p] /\ Ht.a[<<p + 1, p>>] = Conj(beta[p])
    /\ pc = "first_sample" => Ht = Tridiagonal(alpha, beta, len_tdiag)

Hermitian(M) ==
  \A p \in 0..(M.n - 1) : \A q \in 0..(M.n - 1) : M.a[<<p, q>>] = Conj(M.a[<<q, p>>])

RealMatrix(M) ==
  \A p \in 0..(M.n - 1) : \A q \in 0..(M.n - 1) : Im(M.a[<<p, q>>]) = 0

\* C10: the ReducedHamiltonian of the first pass is real symmetric and that of
\* every restart is Hermitian (the diagonal coefficients being real).
C10_HtHermitian ==
  /\ Hermitian(Ht)
  /\ \A k \in 1..Len(list_htdiag) : Hermitian(list_htdiag[k])
  /\ Len(list_htdiag) >= 1 => RealMatrix(list_htdiag[1])

C10_Witness ==
  /\ Len(list_htdiag) >= 2
  /\ ~RealMatrix(list_htdiag[2])
  /\ \A p \in 0..(list_htdiag[2].n - 1) : Im(list_htdiag[2].a[<<p, p>>]) = 0

\* C11: the loop body runs only for axis index 2.  Axes 0 and 1 are passed over
\* in one step that leaves the time, the accumulator and the files untouched;
\* nothing is accumulated or written while the axis index is not 2; the only
\* files ever written are those of axis 2; and the grid and samples of the
\* three-value return are the ones accumulated for axis 2, whose files are
\* written by then.
C11_OnlyAxisTwoRuns ==
  /\ [](files \subseteq AxisFiles(2))
  /\ []((pc = "axis" /\ i <= 2) => (refresh = 0 /\ grid = <<>> /\ dipole_corr = <<>>))
  /\ [][(pc = "axis" /\ i < 2) =>
          (pc' = "axis" /\ i' = i + 1 /\ UNCHANGED <<t, refresh, accum, files>>)]_vars
  /\ [][(WithinCall /\ (accum' # accum \/ files' # files)) => (i = 2 /\ pc # "axis")]_vars
  /\ [][(pc = "axis" /\ pc' = "returned") =>
          (ret' = PropagationReturn /\ files = AxisFiles(2) /\ UNCHANGED accum)]_vars

C11_Witness ==
  /\ pc = "returned"
  /\ ret = PropagationReturn
  /\ files = AxisFiles(2)
  /\ Len(grid) >= 2
  /\ Len(dipole_corr) >= 1

\* C12: an eligible call (pspace_size >= na*nb >= 2, no initial guess,
\* davidson_only false) whose two lowest sub-block eigenvalues differ by less
\* than 1e-12 never gets the direct sub-block solution, whatever nroots is.
C12_DegenerateNeverDirect ==
  (DirectSolve /\ nab >= 2 /\ gap < 1) => solver # "pspace"

\* C13: when the sub-block covers the full space, davidson_only is false and the
\* two lowest eigenvalues are not near-degenerate, the sub-block solution is
\* returned and Davidson is not invoked; when davidson_only is true Davidson is.
C13_FullPspaceSolvesDirectly ==
  (pc # "kernel" /\ ~complex_h /\ norb <= PackLimit /\ nab >= 2) =>
    /\ (pspace_size >= nab /\ ~davidson_only /\ gap >= 1) => solver = "pspace"
    /\ davidson_only => (pc = "davidson" \/ solver = "davidson")

\* C14: for a single-determinant system kernel_lanczos ends by handing back the
\* pair (pw[0]+ecore, [[1]]), whatever davidson_only, pspace_size and the
\* initial guess are.
C14_SingleDeterminantReturned ==
  (driver = "kernel_lanczos" /\ nab = 1 /\ ~complex_h /\ pc \in {"returned", "done", "raised"}) =>
    ret = DirectReturn(1, 1, gap)

C16_PackLimitFallsBack ==
  norb > PackLimit =>
    /\ \A cplx \in BOOLEAN :
         pspace(norb, cplx, hdiag, Max(pspace_size, nroots), argpart).raises = "norb > 63"
    /\ (~complex_h /\ pc # "kernel") =>
         /\ addr = <<0>> /\ pw = "None" /\ precond = "diag"
         /\ err # "NotImplementedError"
         /\ pc = "davidson" \/ solver = "davidson"

C16_Witness ==
  /\ norb > PackLimit
  /\ solver = "davidson"
  /\ DirectSolve
  /\ pspace_size > 0
  /\ precond = "diag"

\* C18: non-convergence is not fatal.  After Davidson the solver holds the
\* per-root flags (one boolean when nroots = 1), after a dense diagonalization
\* it holds True; the step out of the eigen-solve is the same whether or not
\* the roots converged: kernel_ms1 returns its pair and kernel_lanczos with one
\* root goes on to the seeds and the propagation.
C18_NonConvergenceNotFatal ==
  /\ [](solver = "davidson" =>
          /\ converged.scalar <=> (nroots = 1)
          /\ Len(converged.flags) = nroots
          /\ \A k \in 1..nroots : converged.flags[k] <=> (k <= dav_nconv))
  /\ []((solver # "davidson" /\ pw = "eigh(h0)") =>
          (converged.scalar /\ converged.flags = <<TRUE>>))
  /\ [][(pc = "davidson" /\ driver = "kernel_ms1") =>
          (pc' = "done" /\ err' = "" /\ Len(ret') = 2)]_vars
  /\ [][(pc = "davidson" /\ driver = "kernel_lanczos" /\ nroots = 1) =>
          (pc' = "seeds" /\ err' = "")]_vars

C18_Witness ==
  /\ solver = "davidson"
  /\ converged = [scalar |-> TRUE, flags |-> <<FALSE>>]
  /\ pc = "loop"
  /\ Len(dipole_corr) >= 2

\* C19: a Krylov build of dimension 1, at the first pass or at a restart, ends
\* the call with ZeroDivisionError from time_limit: nothing is returned and no
\* file is written, and that error has no other cause.
C19_DimensionOneAborts ==
  /\ [](len_tdiag = 1 => (pc = "raised" /\ err = "ZeroDivisionError"))
  /\ []((pc = "raised" /\ err = "ZeroDivisionError") =>
          (len_tdiag = 1 /\ ret = <<>> /\ files = {}))
  /\ [][pc = "raised" => UNCHANGED vars]_vars

C19_Witness ==
  /\ pc = "raised"
  /\ err = "ZeroDivisionError"
  /\ refresh >= 1
  /\ Len(grid) >= 2

\* C20: every application of the Hamiltonian operator (Davidson, the first
\* Lanczos build, the Lanczos build of every restart) is made under the scoped
\* fci.threads setting, and outside the scopes the previous setting is in force.
C20_HopAlwaysScoped ==
  /\ \A h \in hop_threads : h[2] = "fci.threads"
  /\ omp_threads = "ambient"

C27_RestartsUseComplexOperator ==
  \A b \in aop_log :
    /\ b.site = "first_lanczos" => b.aop = "hop"
    /\ b.site = "restart_lanczos" => b.aop = "hop_complex"
    /\ b.real

\* a restart has built on a seed with a nonzero imaginary part
C27_Witness ==
  /\ pc = "sample"
  /\ ~RealVec(fcivec)
  /\ \E b \in aop_log : b.site = "restart_lanczos"
  /\ \E b \in aop_log : b.site = "first_lanczos"

\* C28: every return of the drivers carries eigenvalue + ecore as its energy.
C28_EveryReturnAddsEcore ==
  ret # <<>> => ret[1] \in {"pw[0]+ecore", "pw[:nroots]+ecore", "e+ecore"}

\* list 'after' is list 'before' with exactly one entry added at its end
OneAppended(before, after) ==
  Len(after) = Len(before) + 1 /\ SubSeq(after, 1, Len(before)) = before

\* C23: the accumulator is append-only.  A restart that completes adds exactly
\* one entry at the end of each of grid, dipole_corr, list_left and list_htdiag
\* and leaves the earlier entries as they were; no other step after the first
\* sample touches the four lists (a restart that aborts adds at most at the end).
C23_AccumulatorAppendOnly ==
  [][/\ (pc = "sample" /\ pc' = "loop") =>
          /\ OneAppended(grid, grid')
          /\ OneAppended(dipole_corr, dipole_corr')
          /\ OneAppended(list_left, list_left')
          /\ OneAppended(list_htdiag, list_htdiag')
     /\ (pc = "sample" /\ pc' = "raised") =>
          /\ grid' = grid /\ dipole_corr' = dipole_corr
          /\ OneAppended(list_left, list_left')
          /\ OneAppended(list_htdiag, list_htdiag')
     /\ pc = "first_sample" => accum = <<<<>>, <<>>, <<>>, <<>>>>
     /\ (WithinCall /\ pc \notin {"sample", "first_sample"}) => accum' = accum]_vars

\* two restarts have completed, with distinct entries recorded
C23_Witness ==
  /\ pc = "loop"
  /\ refresh = 3
  /\ Len(grid) = 4 /\ Len(dipole_corr) = 3 /\ Len(list_left) = 3 /\ Len(list_htdiag) = 3
  /\ grid[2] # grid[3]
  /\ list_left[1] # list_left[2]

C26_TimeBookkeeping ==
  /\ \A k \in 1..Len(dipole_corr) : dipole_corr[k].phase_t = grid[k]
  /\ pc \in {"loop", "rebuild"} =>
        /\ Len(grid) = Len(dipole_corr) + 1
        /\ U.Ht = list_htdiag[Len(list_htdiag)]
        /\ U.t_lim = grid[Len(grid)] - grid[Len(grid) - 1]
        /\ t = grid[Len(grid)]
  /\ pc = "rebuild" => d_next \in ApplyU(U, d)

\* a second restart is about to build, at a time reached by two positive steps
C26_Witness ==
  /\ pc = "rebuild"
  /\ refresh = 2
  /\ grid[2] > 0 /\ grid[3] - grid[2] > 0
  /\ dipole_corr[2].phase_t = grid[2]
  /\ d_next # d

\* the addresses pspace selected
Selected == {addr[k] : k \in 1..Len(addr)}

\* C21: when pspace returns, addr holds min(np, hdiag.size) distinct addresses,
\* np = max(pspace_size, nroots); no address left out has a lower diagonal
\* energy than a selected one; h0 is square of that size and its diagonal is
\* hdiag at the selected addresses, in the order of addr.
C21_LowestEnergySelected ==
  (pc \notin {"_kfactory", "kernel"} /\ ~complex_h /\ norb <= PackLimit) =>
    /\ Len(addr) = Min(Max(pspace_size, nroots), Dim(hdiag))
    /\ Cardinality(Selected) = Len(addr)
    /\ \A a \in Selected : \A b \in (DOMAIN hdiag) \ Selected : hdiag[a] <= hdiag[b]
    /\ h0.n = Len(addr)
    /\ \A k \in 1..Len(addr) : h0.diag[k] = hdiag[addr[k]]

\* a proper sub-block was selected out of address order: the lowest numbered
\* address is left out and has a higher energy than every selected one
C21_Witness ==
  /\ pc = "done"
  /\ Len(addr) = 2 /\ Dim(hdiag) = 3
  /\ 0 \notin Selected
  /\ addr[1] > addr[2]
  /\ hdiag[addr[1]] # hdiag[addr[2]]
  /\ h0.diag = <<hdiag[addr[1]], hdiag[addr[2]]>>

\* C22: the pspace preconditioner caps the magnitude of each reciprocal and
\* changes nothing else: every entry of hdiaginv is sign(r)*min(|r|, 1e8) for
\* the reciprocal r of its denominator, finite also for a zero denominator.
C22_ClampKeepsSign ==
  \A k \in DOMAIN hdiaginv :
    /\ hdiaginv[k] = ClampKeepingSign(Reciprocal(hdiag[k] - e0_shift))
    /\ Abs(hdiaginv[k]) <= PrecondCap

====
